---- MODULE Spec2Model ----
(***************************************************************************)
(* Model of the priority engine of family-calendar-ai                      *)
(* (src/backend/ai_agent.py): get_effective_priority evaluated on a task   *)
(* dict while the wall clock advances (Spec), safe_parse_date applied to   *)
(* texts and other values (SpecDate), and get_recurring_suggestions        *)
(* (src/backend/task_manager.py) looping over the stored rows and asking   *)
(* predict_auto_renew, whose requests to the external classifier fail or   *)
(* answer nondeterministically (SpecRecur).  The command line side: the    *)
(* reading of an AI reply by extract_priority (SpecExtract), the advice    *)
(* of suggest_priority and its local fallback (SpecSuggest), the Add Task  *)
(* branch of the menu (SpecAdd), the operations on the tasks table         *)
(* (SpecCrud), and view_tasks beside get_effective_priority (SpecView).    *)
(*                                                                         *)
(* Python strings are TLA+ strings (TLC evaluates Len, SubSeq and \o on    *)
(* them).  A datetime is an integer number of clock ticks since day 0 of   *)
(* the proleptic Gregorian calendar, TicksPerDay ticks per day; a          *)
(* timedelta is a difference of ticks and its .days is the floor of the    *)
(* quotient by TicksPerDay.                                                *)
(***************************************************************************)
EXTENDS Integers, Sequences, FiniteSets, TLC

VARIABLES
    task,          \* the dict handed to get_effective_priority
    now,           \* the wall clock, in ticks
    result,        \* outcome of the last call of get_effective_priority
    evalAt,        \* clock value at which that call was made
    prevPriority,  \* priority returned by the call before the last one
    dateArg,       \* the value handed to safe_parse_date
    parsed,        \* outcome of the last call of safe_parse_date
    rows,          \* the rows of the tasks table, in SELECT order
    gen,           \* get_recurring_suggestions: where its loop stands
    suggestions,   \* the list get_recurring_suggestions builds
    sources,       \* for each suggestion, the index of the row it came from
    call,          \* the call of predict_auto_renew under way
    asked,         \* the finished calls of predict_auto_renew, in order
    ai_response,   \* the value handed to extract_priority
    level,         \* outcome of the last call of extract_priority
    ask,           \* the arguments handed to suggest_priority
    advice,        \* outcome of the last call of suggest_priority
    table,         \* the rows of the tasks table with their task_id
    next_id,       \* the task_id AUTOINCREMENT gives to the next row
    op,            \* the last statement run on the table
    before,        \* the table as it was before that statement
    cli,           \* the Add Task flow of the menu loop: step and inputs
    shown          \* what the last view_tasks displayed

priorityVars == <<task, now, result, evalAt, prevPriority>>

dateVars == <<dateArg, parsed>>

recurVars == <<rows, gen, suggestions, sources, call, asked>>

extractVars == <<ai_response, level>>

suggestVars == <<ask, advice>>

storeVars == <<table, next_id, op, before>>

flowVars == <<cli>>

viewVars == <<shown>>

cliVars == <<extractVars, suggestVars, storeVars, flowVars, viewVars>>

vars == <<priorityVars, dateVars, recurVars, cliVars>>

----------------------------------------------------------------------------
(* Bounds *)

\* instants distinguished inside one calendar day (tick 0 is midnight)
TicksPerDay == 2

\* how many ticks the clock advances in a behaviour
MaxTicks == 6

----------------------------------------------------------------------------
(* str helpers *)

Digits == "0123456789"

UpperAlpha == "ABCDEFGHIJKLMNOPQRSTUVWXYZ"

LowerAlpha == "abcdefghijklmnopqrstuvwxyz"

CharAt(s, i) == SubSeq(s, i, i)

\* position of the one-character string c in alphabet, 0 when absent
IndexIn(c, alphabet) ==
    IF \E i \in 1..Len(alphabet) : CharAt(alphabet, i) = c
    THEN CHOOSE i \in 1..Len(alphabet) : CharAt(alphabet, i) = c
    ELSE 0

\* str.lower()
RECURSIVE Lower(_)
Lower(s) ==
    IF s = "" THEN ""
    ELSE LET c == CharAt(s, 1)
             k == IndexIn(c, UpperAlpha)
         IN  (IF k > 0 THEN CharAt(LowerAlpha, k) ELSE c)
                 \o Lower(SubSeq(s, 2, Len(s)))

\* sub in s, for a non-empty sub
Contains(sub, s) ==
    \E i \in 1..(Len(s) - Len(sub) + 1) : SubSeq(s, i, i + Len(sub) - 1) = sub

\* number of positions of s at which sub occurs
CountOcc(sub, s) ==
    Cardinality({i \in 1..(Len(s) - Len(sub) + 1) :
                    SubSeq(s, i, i + Len(sub) - 1) = sub})

IsDigit(c) == IndexIn(c, Digits) > 0

AllDigits(s) == \A i \in 1..Len(s) : IsDigit(CharAt(s, i))

\* int(s) of a string of decimal digits
RECURSIVE StrToInt(_)
StrToInt(s) ==
    IF s = "" THEN 0
    ELSE StrToInt(SubSeq(s, 1, Len(s) - 1)) * 10
            + (IndexIn(CharAt(s, Len(s)), Digits) - 1)

RECURSIVE NatToStr(_)
NatToStr(n) ==
    IF n < 10 THEN CharAt(Digits, n + 1)
    ELSE NatToStr(n \div 10) \o CharAt(Digits, (n % 10) + 1)

\* f"{n}" of an int
IntToStr(n) == IF n < 0 THEN "-" \o NatToStr(0 - n) ELSE NatToStr(n)

\* the parts joined last to first
RECURSIVE JoinReversed(_, _)
JoinReversed(sep, parts) ==
    IF parts = <<>> THEN ""
    ELSE IF Len(parts) = 1 THEN parts[1]
    ELSE JoinReversed(sep, Tail(parts)) \o sep \o parts[1]

\* sep.join(parts)
RECURSIVE Join(_, _)
Join(sep, parts) ==
    IF parts = <<>> THEN ""
    ELSE IF Len(parts) = 1 THEN parts[1]
    ELSE parts[1] \o sep \o Join(sep, Tail(parts))

----------------------------------------------------------------------------
(* datetime: calendar arithmetic of the standard library *)

IsLeap(y) == (y % 4 = 0) /\ ((y % 100 # 0) \/ (y % 400 = 0))

DaysInMonth(y, m) ==
    IF m = 2 THEN (IF IsLeap(y) THEN 29 ELSE 28)
    ELSE IF m \in {4, 6, 9, 11} THEN 30 ELSE 31

DaysBeforeYear(y) ==
    LET p == y - 1 IN p * 365 + (p \div 4) - (p \div 100) + (p \div 400)

RECURSIVE DaysBeforeMonth(_, _)
DaysBeforeMonth(y, m) ==
    IF m = 1 THEN 0 ELSE DaysBeforeMonth(y, m - 1) + DaysInMonth(y, m - 1)

\* date(y, m, d).toordinal()
ToOrdinal(y, m, d) == DaysBeforeYear(y) + DaysBeforeMonth(y, m) + d

\* the %m directive: 1[0-2]|0[1-9]|[1-9]
MonthToken(t) ==
    \/ Len(t) = 1 /\ IsDigit(t) /\ t # "0"
    \/ Len(t) = 2 /\ AllDigits(t) /\ StrToInt(t) \in 1..12

\* the %d directive: 3[01]|[12]\d|0[1-9]|[1-9]| [1-9]
DayToken(t) ==
    \/ Len(t) = 1 /\ IsDigit(t) /\ t # "0"
    \/ Len(t) = 2 /\ AllDigits(t) /\ StrToInt(t) \in 1..31
    \/ Len(t) = 2 /\ CharAt(t, 1) = " " /\ IsDigit(CharAt(t, 2))
                  /\ CharAt(t, 2) # "0"

\* datetime.strptime(s, "%Y-%m-%d"): the parsed fields, or ok = FALSE where
\* strptime raises ValueError
Strptime(s) ==
    LET n    == Len(s)
        bad  == [ok |-> FALSE, y |-> 0, m |-> 0, d |-> 0]
    IN  IF n < 8 \/ n > 10 THEN bad
        ELSE IF ~(AllDigits(SubSeq(s, 1, 4)) /\ CharAt(s, 5) = "-") THEN bad
        ELSE LET j  == IF CharAt(s, 7) = "-" THEN 7 ELSE 8
                 mt == SubSeq(s, 6, j - 1)
                 dt == SubSeq(s, j + 1, n)
             IN  IF ~(CharAt(s, j) = "-" /\ MonthToken(mt) /\ DayToken(dt))
                 THEN bad
                 ELSE LET y == StrToInt(SubSeq(s, 1, 4))
                          m == StrToInt(mt)
                          d == StrToInt(SubSeq(dt, IF CharAt(dt, 1) = " "
                                                   THEN 2 ELSE 1, Len(dt)))
                      IN  IF y >= 1 /\ d <= DaysInMonth(y, m)
                          THEN [ok |-> TRUE, y |-> y, m |-> m, d |-> d]
                          ELSE bad

----------------------------------------------------------------------------
(* ai_agent.py *)

\* what safe_parse_date returns for None and for a text strptime rejects
NoDate == [resolved |-> FALSE, dt |-> 0]

\* safe_parse_date(date_str) for a str: the datetime at midnight of the
\* parsed day, or None
SafeParseDate(date_str) ==
    LET p == Strptime(date_str)
    IN  IF p.ok
        THEN [resolved |-> TRUE, dt |-> ToOrdinal(p.y, p.m, p.d) * TicksPerDay]
        ELSE NoDate

UrgentKeywords ==
    << "doctor", "appointment", "exam", "surgery", "meeting",
       "interview", "deadline", "project", "bill", "payment" >>

\* task.get(key, "") for a key whose value is not None
TextOf(t, key) == IF key \in t.absent THEN "" ELSE t[key]

\* task.get("reminder_days", 1) for a key whose value is not None
ReminderDaysOf(t) == IF "reminder_days" \in t.absent THEN 1 ELSE t.reminder_days

\* if due_date_str is not None: an empty text counts as a due date
HasDueTextNotNone(t) == "due_date" \notin (t.absent \cup t.null)

\* if due_date_str: the key is there and holds a non-empty text
HasDueText(t) ==
    /\ "due_date" \notin (t.absent \cup t.null)
    /\ t.due_date # ""

\* (due_date - today).days
DaysLeft(due, today) == (due - today) \div TicksPerDay

\* the first threshold one day short: days_left < 2
DateBucketShort(days_left) ==
    IF days_left < 2 THEN "High"
    ELSE IF days_left <= 7 THEN "Medium"
    ELSE "Low"

\* the if/elif/else on days_left
DateBucket(days_left) ==
    IF days_left <= 2 THEN "High"
    ELSE IF days_left <= 7 THEN "Medium"
    ELSE "Low"

DueReason(days_left) == "due in " \o IntToStr(days_left) \o " days"

\* due_date - timedelta(days=reminder_days)
ReminderDate(due, reminder_days) == due - reminder_days * TicksPerDay

\* today > reminder_date: the reminder instant itself is missed
ReminderFiresLate(today, reminder_date, priority) ==
    today > reminder_date /\ priority # "High"

\* today <= reminder_date: the comparison turned round
ReminderFiresInverted(today, reminder_date, priority) ==
    today <= reminder_date /\ priority # "High"

\* today >= reminder_date alone: the test of the priority left out
ReminderFiresAlways(today, reminder_date, priority) ==
    today >= reminder_date

\* today >= reminder_date and priority != "High"
ReminderFires(today, reminder_date, priority) ==
    today >= reminder_date /\ priority # "High"

ReminderReason(reminder_days) ==
    "reminder triggered (" \o IntToStr(reminder_days) \o "d before)"

\* kw in title or kw in description or kw in category
KeywordMatches(kw, title, description, category) ==
    Contains(kw, title) \/ Contains(kw, description) \/ Contains(kw, category)

\* the keyword loop without its break: one entry per matching keyword
KeywordReasonsNoBreak(title, description, category) ==
    LET hits == SelectSeq(UrgentKeywords,
                    LAMBDA kw : KeywordMatches(kw, title, description, category))
    IN  [i \in 1..Len(hits) |-> "contains urgent keyword: " \o hits[i]]

\* the reason entries the keyword loop appends: it breaks at the first hit
KeywordReasons(title, description, category) ==
    LET hits == SelectSeq(UrgentKeywords,
                    LAMBDA kw : KeywordMatches(kw, title, description, category))
    IN  IF Len(hits) = 0 THEN <<>>
        ELSE << "contains urgent keyword: " \o hits[1] >>

\* the else branch of "if due_date:" left out
InvalidDateReasonsNone == <<>>

\* the else branch of "if due_date:"
InvalidDateReasons == << "invalid or missing due date" >>

Raised(exc) == [status |-> "raised", priority |-> "", reason |-> exc]

get_effective_priority(t, today) ==
    IF {"title", "description", "category"} \cap t.null # {}
    THEN Raised("AttributeError")     \* None.lower()
    ELSE
    LET title       == Lower(TextOf(t, "title"))
        description == Lower(TextOf(t, "description"))
        category    == Lower(TextOf(t, "category"))
        due_date    == IF HasDueText(t) THEN SafeParseDate(t.due_date)
                       ELSE NoDate
    IN  IF due_date.resolved /\ "reminder_days" \in t.null
        THEN Raised("TypeError")      \* timedelta(days=None)
        ELSE
        LET reminder_days == ReminderDaysOf(t)
            days_left     == DaysLeft(due_date.dt, today)
            bucket        == DateBucket(days_left)
            fires         == ReminderFires(today,
                                 ReminderDate(due_date.dt, reminder_days),
                                 bucket)
            dateReason    ==
                IF ~HasDueText(t) THEN <<>>
                ELSE IF ~due_date.resolved
                     THEN InvalidDateReasons
                     ELSE << DueReason(days_left) >>
                          \o (IF fires THEN << ReminderReason(reminder_days) >>
                              ELSE <<>>)
            datePriority  ==
                IF ~due_date.resolved THEN "Low"
                ELSE IF fires THEN "High" ELSE bucket
            kwReason      == KeywordReasons(title, description, category)
            priority      == IF Len(kwReason) > 0 THEN "High" ELSE datePriority
            reason        == dateReason \o kwReason
        IN  [status   |-> "ok",
             priority |-> priority,
             reason   |-> IF Len(reason) > 0 THEN Join(", ", reason)
                          ELSE "no strong signals"]

----------------------------------------------------------------------------
(* safe_parse_date on any argument *)

\* the exception datetime.strptime(arg, "%Y-%m-%d") raises, "none" when it
\* returns
StrptimeRaises(arg) ==
    IF arg.kind # "str" THEN "TypeError"
    ELSE IF ~Strptime(arg.text).ok THEN "ValueError"
    ELSE "none"

\* except ValueError: the TypeError of a None argument is not caught
CaughtValueErrorOnly == {"ValueError"}

\* except (ValueError, TypeError)
CaughtByParse == {"ValueError", "TypeError"}

\* the try/except of both safe_parse_date functions; the value returned is
\* the parsed day (ordinal) counted in units of unit per day
GuardedParse(arg, by, unit) ==
    LET exc == StrptimeRaises(arg)
        p   == Strptime(arg.text)
    IN  IF exc = "none"
        THEN [by |-> by, status |-> "returned", resolved |-> TRUE,
              value |-> ToOrdinal(p.y, p.m, p.d) * unit]
        ELSE IF exc \in CaughtByParse
        THEN [by |-> by, status |-> "returned", resolved |-> FALSE,
              value |-> 0]
        ELSE [by |-> by, status |-> "raised", resolved |-> FALSE, value |-> 0]

\* task_manager.safe_parse_date: strptime(...).date(), the day ordinal
tm_safe_parse_date(arg) ==
    GuardedParse(arg, "task_manager", 1)

\* ai_agent.safe_parse_date: the datetime at midnight, in ticks
ai_safe_parse_date(arg) ==
    GuardedParse(arg, "ai_agent", TicksPerDay)

----------------------------------------------------------------------------
(* The tasks and the clock *)

\* the clock starts at midnight of 2025-12-28
StartDay == ToOrdinal(2025, 12, 28)

StartTicks == StartDay * TicksPerDay

\* title, description, category
Contents ==
    { << "Buy milk", "", "" >>,
      << "Buy milk", "doctor follow-up", "" >>,
      << "Buy milk", "", "Bills" >>,
      << "Exam and MEETING", "see the Doctor", "School Project" >>,
      << "Dentist APPOINTMENT", "", "" >>,
      << "Knee Surgery", "", "" >>,
      << "Job interview", "", "" >>,
      << "Tax DEADLINE", "", "" >>,
      << "Card Payment", "", "" >>,
      << "Pay rent", "", "" >>,
      << "Walk the dog", "parents visit", "Home" >> }

DueTexts ==
    { "", "2025-12-27", "2025-12-28", "2025-12-30", "2025-12-31",
      "2026-01-01", "2026-1-5", "2026-01-06", "2026-01-08", "2026-02-01",
      "13/25/2025", "2025-13-01", "2025-02-30", "28-12-2025" }

ReminderDays == {0, 1, 2, 3, 10}

\* the contents, due dates and reminders tried on dicts with missing or
\* None keys
PartialContents ==
    { << "Buy milk", "", "" >>,
      << "Buy milk", "doctor follow-up", "" >>,
      << "Pay rent", "", "Bills" >> }

PartialDueTexts == { "", "2025-12-30", "2026-01-08", "13/25/2025" }

PartialReminderDays == {1, 10}

\* keys missing from the dict, and keys present with the value None
AbsentSets == { {}, {"due_date"}, {"description", "category", "reminder_days"} }

NullSets == { {}, {"due_date"}, {"reminder_days"}, {"description"} }

\* a missing or None key carries no value of its own
Canonical(t) ==
    /\ t.absent \cap t.null = {}
    /\ "due_date" \in (t.absent \cup t.null) => t.due_date = ""
    /\ "reminder_days" \in (t.absent \cup t.null) => t.reminder_days = 1
    /\ "description" \in (t.absent \cup t.null) => t.description = ""
    /\ "category" \in (t.absent \cup t.null) => t.category = ""

TaskDicts(contents, dues, reminders, absents, nulls) ==
    { t \in { [title |-> c[1], description |-> c[2], category |-> c[3],
               due_date |-> d, reminder_days |-> r,
               absent |-> a, null |-> n] :
                 c \in contents, d \in dues, r \in reminders,
                 a \in absents, n \in nulls } : Canonical(t) }

\* every complete dict, and the partial ones over the smaller sets
Tasks ==
    TaskDicts(Contents, DueTexts, ReminderDays, {{}}, {{}})
        \cup TaskDicts(PartialContents, PartialDueTexts, PartialReminderDays,
                       AbsentSets, NullSets)

NoResult == [status |-> "none", priority |-> "", reason |-> ""]

\* no call of safe_parse_date is under way
NoArg == [kind |-> "none", text |-> ""]

NoParse == [by |-> "", status |-> "none", resolved |-> FALSE, value |-> 0]

DateIdle == dateArg = NoArg /\ parsed = NoParse

\* get_recurring_suggestions has not been called
IdleGen == [pc |-> "idle", i |-> 0, exc |-> ""]

NoResponse == [kind |-> "none", text |-> ""]

\* no call of predict_auto_renew is under way
IdleCall ==
    [pc |-> "idle", row |-> 0, title |-> "", description |-> "",
     requests |-> 0, failures |-> 0, first |-> "none",
     response |-> NoResponse, out |-> ""]

RecurIdle ==
    /\ rows = <<>>
    /\ gen = IdleGen
    /\ suggestions = <<>>
    /\ sources = <<>>
    /\ call = IdleCall
    /\ asked = <<>>

\* extract_priority has not been called
NoLevel == [status |-> "none", value |-> ""]

ExtractIdle == ai_response = NoArg /\ level = NoLevel

\* suggest_priority has not been called
NoAsk == [title |-> "", description |-> "",
          due_date |-> [kind |-> "None", text |-> ""]]

NoAdvice == [status |-> "none", text |-> "", at |-> 0, failed |-> FALSE]

SuggestIdle == ask = NoAsk /\ advice = NoAdvice

\* an empty table on which nothing has been run
NoOp == [name |-> "none", task_id |-> 0, field |-> "", exc |-> ""]

StoreIdle == table = <<>> /\ next_id = 1 /\ op = NoOp /\ before = <<>>

\* the menu is waiting for a choice
IdleCli == [pc |-> "menu", choice |-> "", title |-> "", due_date |-> "",
            reminder_days |-> "", user_priority |-> <<>>, message |-> ""]

FlowIdle == cli = IdleCli

\* view_tasks has not been called
NoShown == [status |-> "none", at |-> 0, priorities |-> <<>>]

ViewIdle == shown = NoShown

CliIdle == ExtractIdle /\ SuggestIdle /\ StoreIdle /\ FlowIdle /\ ViewIdle

Init ==
    /\ task \in Tasks
    /\ now = StartTicks
    /\ result = NoResult
    /\ evalAt = StartTicks
    /\ prevPriority = "none"
    /\ DateIdle
    /\ RecurIdle
    /\ CliIdle

\* time passes between two reads of datetime.now()
Tick ==
    /\ now < StartTicks + MaxTicks
    /\ now' = now + 1
    /\ UNCHANGED <<task, result, evalAt, prevPriority>>
    /\ UNCHANGED <<dateVars, recurVars, cliVars>>

\* a call get_effective_priority(task) reading the clock
Evaluate ==
    /\ result' = get_effective_priority(task, now)
    /\ evalAt' = now
    /\ prevPriority' = IF result.status = "ok" THEN result.priority ELSE "none"
    /\ UNCHANGED <<task, now>>
    /\ UNCHANGED <<dateVars, recurVars, cliVars>>

Next == Tick \/ Evaluate

Spec == Init /\ [][Next]_vars

----------------------------------------------------------------------------
(* safe_parse_date called on its own *)

YearTokens == {"2024", "2025", "0000"}

MonthTokens == {"02", "2", "12", "13", "00"}

DayTokens == {"01", "9", " 9", "29", "30", "31", "32"}

Separators == {"-", "/"}

\* year, month and day written in the three usual orders
ComposedTexts ==
    { f[1] \o sep \o f[2] \o sep \o f[3] :
        sep \in Separators,
        f \in UNION { { <<y, m, d>>, <<m, d, y>>, <<d, m, y>> } :
                        y \in YearTokens, m \in MonthTokens,
                        d \in DayTokens } }

OtherTexts ==
    { "", "2025-10-10 ", " 2025-10-10", "2025-10-10-", "20251010",
      "2025-1-011", "2025-111", "2025- 2-09", "0001-01-01", "tomorrow" }

\* a task in which nothing is evaluated
IdleTask ==
    [title |-> "", description |-> "", category |-> "", due_date |-> "",
     reminder_days |-> 1, absent |-> {}, null |-> {}]

PriorityIdle ==
    /\ task = IdleTask
    /\ now = StartTicks
    /\ result = NoResult
    /\ evalAt = StartTicks
    /\ prevPriority = "none"

\* the argument: None, an int, or a text
DateArgs ==
    { [kind |-> "None", text |-> ""], [kind |-> "int", text |-> ""] }
        \cup { [kind |-> "str", text |-> t] : t \in ComposedTexts \cup OtherTexts }

InitDate ==
    /\ PriorityIdle
    /\ dateArg \in DateArgs
    /\ parsed = NoParse
    /\ RecurIdle
    /\ CliIdle

\* task_manager.safe_parse_date(dateArg)
ParseInTaskManager ==
    /\ parsed' = tm_safe_parse_date(dateArg)
    /\ UNCHANGED <<dateArg, priorityVars, recurVars, cliVars>>

\* ai_agent.safe_parse_date(dateArg)
ParseInAiAgent ==
    /\ parsed' = ai_safe_parse_date(dateArg)
    /\ UNCHANGED <<dateArg, priorityVars, recurVars, cliVars>>

NextDate == ParseInTaskManager \/ ParseInAiAgent

SpecDate == InitDate /\ [][NextDate]_vars

----------------------------------------------------------------------------
(* datetime: date + timedelta and strftime *)

\* date.max.toordinal()
MaxOrdinal == ToOrdinal(9999, 12, 31)

\* date.fromordinal(ordinal), as the standard library computes it
Ord2Ymd(ordinal) ==
    LET n0   == ordinal - 1
        n400 == n0 \div 146097
        r400 == n0 % 146097
        n100 == r400 \div 36524
        r100 == r400 % 36524
        n4   == r100 \div 1461
        r4   == r100 % 1461
        n1   == r4 \div 365
        n    == r4 % 365
        year == n400 * 400 + 1 + n100 * 100 + n4 * 4 + n1
    IN  IF n1 = 4 \/ n100 = 4 THEN [y |-> year - 1, m |-> 12, d |-> 31]
        ELSE LET guess == (n + 50) \div 32
                 month == IF DaysBeforeMonth(year, guess) > n
                          THEN guess - 1 ELSE guess
             IN  [y |-> year, m |-> month,
                  d |-> n - DaysBeforeMonth(year, month) + 1]

\* n written with at least width digits
ZeroPad(n, width) ==
    LET t == NatToStr(n)
    IN  IF Len(t) >= width THEN t
        ELSE SubSeq("0000", 1, width - Len(t)) \o t

\* strftime("%Y-%m-%d"); %Y of a year below 1000 is zero-filled or not,
\* depending on the C library (pad)
Strftime(date, pad) ==
    (IF pad THEN ZeroPad(date.y, 4) ELSE NatToStr(date.y))
        \o "-" \o ZeroPad(date.m, 2) \o "-" \o ZeroPad(date.d, 2)

\* the ways the build can write the year of a date
PadChoices(date) == IF date.y < 1000 THEN {TRUE, FALSE} ELSE {TRUE}

----------------------------------------------------------------------------
(* ai_agent.py: predict_auto_renew *)

Whitespace == {" ", "\t", "\n", "\r"}

\* str.strip()
RECURSIVE Strip(_)
Strip(s) ==
    IF s = "" THEN ""
    ELSE IF CharAt(s, 1) \in Whitespace THEN Strip(SubSeq(s, 2, Len(s)))
    ELSE IF CharAt(s, Len(s)) \in Whitespace
         THEN Strip(SubSeq(s, 1, Len(s) - 1))
    ELSE s

\* "yes" in reply, without lower()
ParseReplyCaseSensitive(response) ==
    IF response.kind = "malformed" THEN "No"
    ELSE IF Contains("yes", Strip(response.text)) THEN "Yes" ELSE "No"

\* the second try block: a response without a usable message text raises
\* inside it and gives "No"
ParseReply(response) ==
    IF response.kind = "malformed" THEN "No"
    ELSE IF Contains("yes", Lower(Strip(response.text))) THEN "Yes" ELSE "No"

\* the first try block: an exception of the request leads to the request
\* to gpt-4o-mini, a response leads on to its parsing
AfterPrimary(outcome) ==
    IF outcome.kind = "error" THEN "fallback" ELSE "returned"

\* the request in the except block is not guarded: its exception leaves
\* predict_auto_renew
AfterFallback(outcome) ==
    IF outcome.kind = "error" THEN "raised" ELSE "returned"

\* what a request to the classifier can come back with: an exception
\* (timeout, error, unknown model), a response without message text, or a
\* response with a text
Replies == {"Yes", "No", " YES.\n", "Maybe"}

Outcomes ==
    { [kind |-> "error", text |-> ""], [kind |-> "malformed", text |-> ""] }
        \cup { [kind |-> "reply", text |-> t] : t \in Replies }

IsFailure(outcome) == outcome.kind \in {"error", "malformed"}

\* the state of the call after a request came back with outcome
AfterRequest(c, outcome, pc) ==
    [c EXCEPT !.pc       = pc,
              !.requests = @ + 1,
              !.failures = @ + (IF IsFailure(outcome) THEN 1 ELSE 0),
              !.first    = IF c.requests = 0 THEN outcome.kind ELSE @,
              !.response = outcome,
              !.out      = IF pc = "returned" THEN ParseReply(outcome) ELSE ""]

----------------------------------------------------------------------------
(* task_manager.py: get_recurring_suggestions *)

\* bound: number of rows in the tasks table
MaxRows == 2

\* a row of SELECT title, description, category, due_date, priority,
\* reminder_days
Row(title, description, category, due, priority, reminder_days) ==
    [title |-> title, description |-> description, category |-> category,
     due_date |-> due, priority |-> priority, reminder_days |-> reminder_days]

Text(t) == [kind |-> "str", text |-> t]

Null == [kind |-> "None", text |-> ""]

StoredRows ==
    { Row("Take out trash", "every Sunday", "Home", Text("2025-12-28"), "Low", 1),
      Row("Pay rent", "", "Bills", Text("2024-2-25"), "High", 3),
      Row("Dentist", "", "Health", Text("13/25/2025"), "Medium", 1),
      Row("Call mom", "", "", Null, "Medium", 0),
      Row("Water plants", "", "", Text(""), "Low", 1),
      Row("Old note", "", "", Text("0025-12-28"), "Low", 1),
      Row("Archive", "", "", Text("9999-12-28"), "High", 1) }

RECURSIVE SeqsUpTo(_, _)
SeqsUpTo(S, n) ==
    IF n = 0 THEN { <<>> }
    ELSE LET shorter == SeqsUpTo(S, n - 1)
         IN  shorter \cup { Append(q, x) : q \in shorter, x \in S }

RowSeqs == SeqsUpTo(StoredRows, MaxRows) \ { <<>> }

\* the dict appended for a row
Suggestion(row, next_due_date) ==
    [title |-> row.title, description |-> row.description,
     category |-> row.category, due_date |-> next_due_date,
     priority |-> row.priority, reminder_days |-> row.reminder_days]

\* an item already in the list is not added again
AppendSuggestionOnce(list, item) ==
    IF \E k \in DOMAIN list : list[k] = item THEN list ELSE Append(list, item)

\* suggestions.append(item)
AppendSuggestion(list, item) == Append(list, item)

InitRecur ==
    /\ PriorityIdle
    /\ DateIdle
    /\ CliIdle
    /\ rows \in RowSeqs
    /\ gen = IdleGen
    /\ suggestions = <<>>
    /\ sources = <<>>
    /\ call = IdleCall
    /\ asked = <<>>

\* get_recurring_suggestions(): the rows are fetched, the list is empty
StartGenerator ==
    /\ gen.pc = "idle"
    /\ gen' = [gen EXCEPT !.pc = "loop", !.i = 1]
    /\ suggestions' = <<>>
    /\ sources' = <<>>
    /\ UNCHANGED <<rows, call, asked, priorityVars, dateVars, cliVars>>

\* a row whose due date does not parse is skipped
SkipRow ==
    /\ gen.pc = "loop" /\ gen.i <= Len(rows)
    /\ ~tm_safe_parse_date(rows[gen.i].due_date).resolved
    /\ gen' = [gen EXCEPT !.i = @ + 1]
    /\ UNCHANGED <<rows, suggestions, sources, call, asked,
                   priorityVars, dateVars, cliVars>>

\* predict_auto_renew(title, description) is called for the row
AskOracle ==
    /\ gen.pc = "loop" /\ gen.i <= Len(rows)
    /\ tm_safe_parse_date(rows[gen.i].due_date).resolved
    /\ gen' = [gen EXCEPT !.pc = "asking"]
    /\ call' = [IdleCall EXCEPT !.pc = "primary", !.row = gen.i,
                                !.title = rows[gen.i].title,
                                !.description = rows[gen.i].description]
    /\ UNCHANGED <<rows, suggestions, sources, asked, priorityVars, dateVars, cliVars>>

\* the request to gpt-5-mini comes back
PrimaryRequest ==
    /\ call.pc = "primary"
    /\ \E outcome \in Outcomes :
          call' = AfterRequest(call, outcome, AfterPrimary(outcome))
    /\ UNCHANGED <<rows, gen, suggestions, sources, asked,
                   priorityVars, dateVars, cliVars>>

\* the request to gpt-4o-mini comes back
FallbackRequest ==
    /\ call.pc = "fallback"
    /\ \E outcome \in Outcomes :
          call' = AfterRequest(call, outcome, AfterFallback(outcome))
    /\ UNCHANGED <<rows, gen, suggestions, sources, asked,
                   priorityVars, dateVars, cliVars>>

Finished(c) == [row |-> c.row, requests |-> c.requests, first |-> c.first,
                out |-> IF c.pc = "raised" THEN "raised" ELSE c.out]

\* predict_auto_renew returned: on "Yes" the suggestion for the next week
\* is appended, unless the date a week later is beyond date.max
EmitOrNot ==
    /\ gen.pc = "asking" /\ call.pc = "returned"
    /\ LET row == rows[gen.i]
           day == tm_safe_parse_date(row.due_date).value
       IN  IF call.out # "Yes"
           THEN /\ gen' = [gen EXCEPT !.pc = "loop", !.i = @ + 1]
                /\ UNCHANGED <<suggestions, sources>>
           ELSE IF day + 7 > MaxOrdinal
           THEN /\ gen' = [gen EXCEPT !.pc = "raised", !.exc = "OverflowError"]
                /\ UNCHANGED <<suggestions, sources>>
           ELSE \E pad \in PadChoices(Ord2Ymd(day + 7)) :
                /\ suggestions' = AppendSuggestion(suggestions,
                        Suggestion(row, Strftime(Ord2Ymd(day + 7), pad)))
                /\ sources' = IF Len(suggestions') > Len(suggestions)
                              THEN Append(sources, gen.i) ELSE sources
                /\ gen' = [gen EXCEPT !.pc = "loop", !.i = @ + 1]
    /\ asked' = Append(asked, Finished(call))
    /\ call' = IdleCall
    /\ UNCHANGED <<rows, priorityVars, dateVars, cliVars>>

\* the exception of predict_auto_renew leaves get_recurring_suggestions
GeneratorRaises ==
    /\ gen.pc = "asking" /\ call.pc = "raised"
    /\ gen' = [gen EXCEPT !.pc = "raised", !.exc = "APIError"]
    /\ asked' = Append(asked, Finished(call))
    /\ call' = IdleCall
    /\ UNCHANGED <<rows, suggestions, sources, priorityVars, dateVars, cliVars>>

\* the suggestions are also stored as new rows before they are returned
ReturnSuggestionsStored ==
    /\ gen.pc = "loop" /\ gen.i > Len(rows)
    /\ gen' = [gen EXCEPT !.pc = "returned"]
    /\ rows' = rows \o suggestions
    /\ UNCHANGED <<suggestions, sources, call, asked, priorityVars, dateVars, cliVars>>

\* the loop is over: return suggestions
ReturnSuggestions ==
    /\ gen.pc = "loop" /\ gen.i > Len(rows)
    /\ gen' = [gen EXCEPT !.pc = "returned"]
    /\ UNCHANGED <<rows, suggestions, sources, call, asked,
                   priorityVars, dateVars, cliVars>>

NextRecur ==
    \/ StartGenerator
    \/ SkipRow
    \/ AskOracle
    \/ PrimaryRequest
    \/ FallbackRequest
    \/ EmitOrNot
    \/ GeneratorRaises
    \/ ReturnSuggestions

SpecRecur == InitRecur /\ [][NextRecur]_vars

----------------------------------------------------------------------------
(* ai_agent.py: extract_priority *)

\* ai_response.split("\n")[0]
FirstLine(s) ==
    IF \E k \in 1..Len(s) : CharAt(s, k) = "\n"
    THEN LET k == CHOOSE i \in 1..Len(s) :
                      /\ CharAt(s, i) = "\n"
                      /\ \A j \in 1..(i - 1) : CharAt(s, j) # "\n"
         IN  SubSeq(s, 1, k - 1)
    ELSE s

\* s.replace(old, ""): the occurrences of old, found from the left and not
\* overlapping, are taken out
RECURSIVE Remove(_, _)
Remove(old, s) ==
    IF Len(s) < Len(old) THEN s
    ELSE IF SubSeq(s, 1, Len(old)) = old
         THEN Remove(old, SubSeq(s, Len(old) + 1, Len(s)))
    ELSE SubSeq(s, 1, 1) \o Remove(old, SubSeq(s, 2, Len(s)))

PriorityLevels == {"High", "Medium", "Low"}

\* a line counts for the level it mentions
LevelOfLineLoose(line) ==
    IF Contains("High", line) THEN "High"
    ELSE IF Contains("Low", line) THEN "Low"
    ELSE "Medium"

\* if line in {"High", "Medium", "Low"}: return line; return "Medium"
LevelOfLine(line) == IF line \in PriorityLevels THEN line ELSE "Medium"

\* the try block on a text; on any other value split raises and the
\* except block answers "Medium"
extract_priority(arg) ==
    IF arg.kind # "str" THEN "Medium"
    ELSE LevelOfLine(Strip(Remove("Priority:", FirstLine(arg.text))))

\* the replies extract_priority is tried on: a label, a word, a tail
ReplyLabels == {"", "Priority:", "Priority: ", "- Priority: ", "priority: ",
                "Priority:Priority: "}

ReplyWords == {"High", "Medium", "Low", "high", "Urgent", ""}

ReplyTails == {"", "\nReason: due soon", " (urgent)", "  ",
               "\r\nPriority: Low", "\nHigh"}

ComposedReplies ==
    { l \o w \o t : l \in ReplyLabels, w \in ReplyWords, t \in ReplyTails }

OtherReplies ==
    { "\nPriority: High", "HiPriority:gh", "Priority: High\tPriority:",
      "Priority: Medium\nReason: Default fallback (error during generation)." }

ExtractArgs ==
    { [kind |-> "None", text |-> ""], [kind |-> "int", text |-> ""] }
        \cup { [kind |-> "str", text |-> t] :
                    t \in ComposedReplies \cup OtherReplies }

InitExtract ==
    /\ PriorityIdle
    /\ DateIdle
    /\ RecurIdle
    /\ SuggestIdle /\ StoreIdle /\ FlowIdle /\ ViewIdle
    /\ ai_response \in ExtractArgs
    /\ level = NoLevel

\* extract_priority(ai_response)
Extract ==
    /\ level.status = "none"
    /\ level' = [status |-> "returned", value |-> extract_priority(ai_response)]
    /\ UNCHANGED <<ai_response, priorityVars, dateVars, recurVars>>
    /\ UNCHANGED <<suggestVars, storeVars, flowVars, viewVars>>

NextExtract == Extract

SpecExtract == InitExtract /\ [][NextExtract]_vars

----------------------------------------------------------------------------
(* ai_agent.py: suggest_priority *)

\* the keywords of the local fallback
FallbackKeywords == {"doctor", "exam", "surgery", "rent", "bill", "deadline",
                     "project", "meeting"}

\* the texts the local fallback returns ("<=" stands for the sign the
\* source writes in the reason line)
HighByDate == "Priority: High\nReason: due in <=2 days (local fallback)."

MediumByDate == "Priority: Medium\nReason: due in <=7 days (local fallback)."

HighByKeyword == "Priority: High\nReason: urgent keyword (local fallback)."

LowByDefault == "Priority: Low\nReason: no urgency signals (local fallback)."

DefaultAdvice ==
    "Priority: Medium\nReason: Default fallback (error during generation)."

\* text = f"{title} {description}".lower(); any(k in text for k in [...])
KeywordFallback(title, description) ==
    LET text == Lower(title \o " " \o description)
    IN  IF \E k \in FallbackKeywords : Contains(k, text)
        THEN HighByKeyword ELSE LowByDefault

\* the except block: the date rules first, then the keywords; an exception
\* of strptime is caught by the inner except
LocalFallback(title, description, due_date, today) ==
    IF due_date.kind = "str" /\ due_date.text # ""
    THEN IF ~Strptime(due_date.text).ok THEN DefaultAdvice
         ELSE LET days_left ==
                      DaysLeft(SafeParseDate(due_date.text).dt, today)
              IN  IF days_left <= 2 THEN HighByDate
                  ELSE IF days_left <= 7 THEN MediumByDate
                  ELSE KeywordFallback(title, description)
    ELSE KeywordFallback(title, description)

\* suggest_priority(title, description, due_date) when the request comes
\* back with outcome at clock value today
suggest_priority(title, description, due_date, today, outcome) ==
    IF outcome.kind = "reply" THEN Strip(outcome.text)
    ELSE LocalFallback(title, description, due_date, today)

\* what is asked about
AskedTexts ==
    { <<"Buy milk", "">>, <<"Doctor visit", "">>, <<"Pay RENT", "">>,
      <<"Walk", "before the meeting">> }

AskedDueDates ==
    { [kind |-> "None", text |-> ""], [kind |-> "str", text |-> ""] }
        \cup { [kind |-> "str", text |-> t] :
                 t \in {"2025-12-20", "2025-12-28", "2025-12-30",
                        "2025-12-31", "2026-01-02", "2026-01-04",
                        "2026-01-05", "2026-01-10", "13/25/2025"} }

Asks ==
    { [title |-> c[1], description |-> c[2], due_date |-> d] :
          c \in AskedTexts, d \in AskedDueDates }

\* what the request of suggest_priority can come back with
AdviceOutcomes ==
    { [kind |-> "error", text |-> ""], [kind |-> "malformed", text |-> ""],
      [kind |-> "reply", text |-> "Priority: Low\nReason: routine.\n"] }

InitSuggest ==
    /\ PriorityIdle
    /\ DateIdle
    /\ RecurIdle
    /\ ExtractIdle /\ StoreIdle /\ FlowIdle /\ ViewIdle
    /\ ask \in Asks
    /\ advice = NoAdvice

\* a call suggest_priority(title, description, due_date) reading the clock
Suggest ==
    /\ \E outcome \in AdviceOutcomes :
          advice' = [status |-> "returned",
                     text   |-> suggest_priority(ask.title, ask.description,
                                                 ask.due_date, now, outcome),
                     at     |-> now,
                     failed |-> IsFailure(outcome)]
    /\ UNCHANGED <<ask, priorityVars, dateVars, recurVars>>
    /\ UNCHANGED <<extractVars, storeVars, flowVars, viewVars>>

NextSuggest == Tick \/ Suggest

SpecSuggest == InitSuggest /\ [][NextSuggest]_vars

----------------------------------------------------------------------------
(* task_manager.py: the tasks table and add_task *)

\* bound: number of rows the table comes to hold
MaxTasks == 2

\* the row INSERT writes: task_id from AUTOINCREMENT, the timestamps from
\* CURRENT_TIMESTAMP (duration, recurring_rule and tags stay NULL)
StoredTask(id, title, description, category, due_date, priority, reminder_days, status, today) ==
    [task_id |-> id, title |-> title, description |-> description,
     category |-> category, due_date |-> due_date, priority |-> priority,
     reminder_days |-> reminder_days, status |-> status,
     created_at |-> today, updated_at |-> today]

\* add_task(title, description, category, due_date, priority=...,
\* reminder_days=...) with status "Pending"
add_task(tbl, id, title, description, category, due_date, priority, reminder_days, today) ==
    Append(tbl, StoredTask(id, title, description, category, due_date,
                           priority, reminder_days, "Pending", today))

----------------------------------------------------------------------------
(* cli.py: the Add Task branch of the menu loop *)

\* str.capitalize(): first character upper case, the rest lower case
Capitalize(s) ==
    IF s = "" THEN ""
    ELSE LET c == CharAt(s, 1)
             k == IndexIn(c, LowerAlpha)
         IN  (IF k > 0 THEN CharAt(UpperAlpha, k) ELSE c)
                 \o Lower(SubSeq(s, 2, Len(s)))

\* the digits of an int literal: digits, single underscores between them
IsIntBody(s) ==
    /\ s # ""
    /\ \A i \in 1..Len(s) : IsDigit(CharAt(s, i)) \/ CharAt(s, i) = "_"
    /\ IsDigit(CharAt(s, 1)) /\ IsDigit(CharAt(s, Len(s)))
    /\ \A i \in 1..(Len(s) - 1) :
          ~(CharAt(s, i) = "_" /\ CharAt(s, i + 1) = "_")

\* a text that is no number counts as the default 1
IntOfLenient(text) ==
    LET t    == Strip(text)
        sign == t # "" /\ CharAt(t, 1) \in {"+", "-"}
        body == IF sign THEN SubSeq(t, 2, Len(t)) ELSE t
        n    == StrToInt(Remove("_", body))
    IN  IF IsIntBody(body)
        THEN [ok |-> TRUE,
              value |-> IF sign /\ CharAt(t, 1) = "-" THEN 0 - n ELSE n]
        ELSE [ok |-> TRUE, value |-> 1]

\* int(text): ok is FALSE where int raises ValueError
IntOf(text) ==
    LET t    == Strip(text)
        sign == t # "" /\ CharAt(t, 1) \in {"+", "-"}
        body == IF sign THEN SubSeq(t, 2, Len(t)) ELSE t
        n    == StrToInt(Remove("_", body))
    IN  IF IsIntBody(body)
        THEN [ok |-> TRUE,
              value |-> IF sign /\ CharAt(t, 1) = "-" THEN 0 - n ELSE n]
        ELSE [ok |-> FALSE, value |-> 0]

\* the priority prompt is repeated until the entry, stripped and
\* capitalized, is empty or a level: the entry that ends the loop
RECURSIVE AcceptedPriority(_)
AcceptedPriority(entries) ==
    LET entry == Capitalize(Strip(Head(entries)))
    IN  IF entry \in {"", "Low", "Medium", "High"} \/ Len(entries) = 1
        THEN entry
        ELSE AcceptedPriority(Tail(entries))

\* what is typed at the prompts
TitleInputs == {"", "  ", " Buy milk "}

DueDateInputs == {"", "2025-12-30", " 2025-2-9", "12/30/2025"}

ReminderInputs == {"", " 3", "abc"}

PriorityInputs == { <<"">>, <<" high ">>, <<"urgent", "LOW">> }

\* the messages of the branch
EmptyTitle == "Task title cannot be empty."

InvalidDate == "Invalid date format. Use YYYY-MM-DD (e.g., 2025-10-13)."

NotANumber == "Reminder days must be a number."

Added == "added successfully!"

InitAdd ==
    /\ PriorityIdle
    /\ DateIdle
    /\ RecurIdle
    /\ ExtractIdle /\ SuggestIdle /\ ViewIdle
    /\ StoreIdle
    /\ cli = IdleCli

\* the entries typed for one pass through the branch, kept in cli
Typed(title, due, reminder, priorities, message) ==
    [pc |-> "menu", choice |-> "1", title |-> title, due_date |-> due,
     reminder_days |-> reminder, user_priority |-> priorities,
     message |-> message]

\* choice "1": the prompts are answered one after the other; the branch
\* ends with add_task or, after a message, with continue
AddTaskBranch ==
    /\ Len(table) < MaxTasks
    /\ \E title_in \in TitleInputs, due_in \in DueDateInputs,
          reminder_in \in ReminderInputs, priority_in \in PriorityInputs,
          outcome \in AdviceOutcomes :
          LET title    == Strip(title_in)
              due      == Strip(due_in)
              parsed_date == tm_safe_parse_date([kind |-> "str", text |-> due])
              reminder == IntOf(IF Strip(reminder_in) = "" THEN "1"
                                ELSE Strip(reminder_in))
          IN  IF title = ""
              THEN /\ cli' = Typed(title_in, "", "", <<>>, EmptyTitle)
                   /\ UNCHANGED <<table, next_id>>
              ELSE IF due # "" /\ ~parsed_date.resolved
              THEN /\ cli' = Typed(title_in, due_in, "", <<>>, InvalidDate)
                   /\ UNCHANGED <<table, next_id>>
              ELSE IF ~reminder.ok
              THEN /\ cli' = Typed(title_in, due_in, reminder_in, <<>>,
                                   NotANumber)
                   /\ UNCHANGED <<table, next_id>>
              ELSE \E pad \in (IF due = "" THEN {TRUE}
                               ELSE PadChoices(Ord2Ymd(parsed_date.value))) :
                   LET due_date ==
                           IF due = "" THEN [kind |-> "None", text |-> ""]
                           ELSE [kind |-> "str",
                                 text |-> Strftime(Ord2Ymd(parsed_date.value),
                                                   pad)]
                       ai_reply == suggest_priority(title, "", due_date,
                                                    now, outcome)
                       base_priority == extract_priority(
                                            [kind |-> "str", text |-> ai_reply])
                       user_priority == AcceptedPriority(priority_in)
                   IN  /\ cli' = Typed(title_in, due_in, reminder_in,
                                       priority_in, Added)
                       /\ table' = add_task(table, next_id, title, "", "",
                                        due_date,
                                        IF user_priority # ""
                                        THEN user_priority ELSE base_priority,
                                        reminder.value, now)
                       /\ next_id' = next_id + 1
    /\ before' = table
    /\ op' = [NoOp EXCEPT !.name = "branch 1"]
    /\ UNCHANGED <<priorityVars, dateVars, recurVars>>
    /\ UNCHANGED <<extractVars, suggestVars, viewVars>>

NextAdd == AddTaskBranch

SpecAdd == InitAdd /\ [][NextAdd]_vars

----------------------------------------------------------------------------
(* task_manager.py: update_task, mark_task_complete, delete_task,
   clear_all_tasks *)

\* position of the first occurrence of sub in s, 0 when there is none
Find(sub, s) ==
    LET at == {i \in 1..(Len(s) - Len(sub) + 1) :
                  SubSeq(s, i, i + Len(sub) - 1) = sub}
    IN  IF at = {} THEN 0 ELSE CHOOSE i \in at : \A j \in at : i <= j

\* the pieces of s between the occurrences of sep
RECURSIVE Split(_, _)
Split(sep, s) ==
    LET k == Find(sep, s)
    IN  IF k = 0 THEN << s >>
        ELSE << SubSeq(s, 1, k - 1) >>
                 \o Split(sep, SubSeq(s, k + Len(sep), Len(s)))

\* the columns of the tasks table kept in the rows of the model
Columns == {"task_id", "title", "description", "category", "due_date",
            "priority", "reminder_days", "status", "created_at",
            "updated_at"}

\* fields = ", ".join([f"{k}=?" for k in kwargs.keys()]) and the f-string
\* of the statement around it
UpdateQuery(keys) ==
    "UPDATE tasks SET "
        \o Join(", ", [i \in 1..Len(keys) |-> keys[i] \o "=?"])
        \o ", updated_at=CURRENT_TIMESTAMP WHERE task_id=?"

\* the statement as SQLite reads it: a "--" starts a comment
WithoutComment(query) ==
    LET k == Find("--", query)
    IN  IF k > 0 THEN SubSeq(query, 1, k - 1) ELSE query

\* the assignments between SET and WHERE
SetPart(statement) ==
    LET body == SubSeq(statement, Len("UPDATE tasks SET ") + 1, Len(statement))
        w    == Find(" WHERE ", body)
    IN  IF w > 0 THEN SubSeq(body, 1, w - 1) ELSE body

\* the condition behind the first WHERE, "" when there is none
WherePart(statement) ==
    LET body == SubSeq(statement, Len("UPDATE tasks SET ") + 1, Len(statement))
        w    == Find(" WHERE ", body)
    IN  IF w > 0 THEN Strip(SubSeq(body, w + Len(" WHERE "), Len(body)))
        ELSE ""

ColumnOf(assignment) == Strip(SubSeq(assignment, 1, Find("=", assignment) - 1))

ExprOf(assignment) ==
    Strip(SubSeq(assignment, Find("=", assignment) + 1, Len(assignment)))

\* the value an expression of the statement stands for: "?" is the next
\* of the bound values, y of them being used up already
ValueOf(expr, y, values, today) ==
    IF expr = "?" THEN values[y + 1] ELSE today

\* how many of the first n pieces use a bound value
Bound(pieces, n) ==
    Cardinality({i \in 1..n : Contains("?", pieces[i])})

\* the row after the assignments, each value taken from the statement
RECURSIVE Assigned(_, _, _, _, _)
Assigned(row, assignments, n, values, today) ==
    IF n = 0 THEN row
    ELSE LET done == Assigned(row, assignments, n - 1, values, today)
         IN  [done EXCEPT ![ColumnOf(assignments[n])] =
                  ValueOf(ExprOf(assignments[n]), Bound(assignments, n - 1),
                          values, today)]

\* the row is one the condition selects: a disjunction of task_id=? and
\* of 1=1; no condition selects every row
Selected(row, where, used, values) ==
    LET conds == Split(" OR ", where)
    IN  \/ where = ""
        \/ \E i \in 1..Len(conds) :
              \/ conds[i] = "1=1"
              \/ /\ conds[i] = "task_id=?"
                 /\ row.task_id = values[used + Bound(conds, i - 1) + 1]

\* cursor.execute(query, values) for an UPDATE of tasks: an unknown column
\* is an OperationalError, a number of values other than that of the "?"
\* a ProgrammingError; both leave the table as it is
ExecuteUpdate(tbl, query, values, today) ==
    LET statement   == WithoutComment(query)
        assignments == Split(", ", SetPart(statement))
        where       == WherePart(statement)
    IN  IF \E i \in 1..Len(assignments) :
               ColumnOf(assignments[i]) \notin Columns
        THEN [exc |-> "OperationalError", table |-> tbl]
        ELSE IF CountOcc("?", statement) # Len(values)
        THEN [exc |-> "ProgrammingError", table |-> tbl]
        ELSE [exc |-> "",
              table |->
                [i \in 1..Len(tbl) |->
                    IF Selected(tbl[i], where,
                                Bound(assignments, Len(assignments)), values)
                    THEN Assigned(tbl[i], assignments, Len(assignments),
                                  values, today)
                    ELSE tbl[i]]]

\* update_task(task_id, **kwargs), kwargs as the sequence of its
\* (key, value) pairs
update_task(tbl, task_id, kwargs, today) ==
    IF kwargs = <<>> THEN [exc |-> "", table |-> tbl]
    ELSE ExecuteUpdate(tbl,
                       UpdateQuery([i \in 1..Len(kwargs) |-> kwargs[i][1]]),
                       [i \in 1..Len(kwargs) |-> kwargs[i][2]]
                           \o << task_id >>,
                       today)

\* UPDATE tasks SET status='Completed', updated_at=CURRENT_TIMESTAMP
\* WHERE task_id=?
mark_task_complete(tbl, task_id, today) ==
    [i \in 1..Len(tbl) |->
        IF tbl[i].task_id = task_id
        THEN [tbl[i] EXCEPT !.status = "Completed", !.updated_at = today]
        ELSE tbl[i]]

\* DELETE FROM tasks WHERE task_id=?
delete_task(tbl, task_id) ==
    SelectSeq(tbl, LAMBDA row : row.task_id # task_id)

\* DELETE FROM tasks
clear_all_tasks(tbl) == <<>>

\* the calls made on the table
AddedTitles == {"Science Project", "Grocery Shopping"}

TaskIds == 1..(MaxTasks + 1)

UpdateArgs ==
    { <<>>,
      << <<"title", "Weekly Grocery Shopping">> >>,
      << <<"title", "Weekly Grocery Shopping">>, <<"priority", "High">> >>,
      << <<"colour", "red">> >>,
      << <<"title=? WHERE task_id=? OR 1=1 --", "Weekly Grocery Shopping">> >> }

InitCrud ==
    /\ PriorityIdle
    /\ DateIdle
    /\ RecurIdle
    /\ ExtractIdle /\ SuggestIdle /\ FlowIdle /\ ViewIdle
    /\ StoreIdle

Ran(name, task_id, field, exc) ==
    [name |-> name, task_id |-> task_id, field |-> field, exc |-> exc]

CrudFrame ==
    /\ UNCHANGED <<priorityVars, dateVars, recurVars>>
    /\ UNCHANGED <<extractVars, suggestVars, flowVars, viewVars>>

\* add_task(title=...) with the defaults for the rest
AddTask ==
    /\ next_id <= MaxTasks
    /\ \E title \in AddedTitles :
          table' = add_task(table, next_id, title, "", "",
                            [kind |-> "None", text |-> ""], "Medium", 1, now)
    /\ next_id' = next_id + 1
    /\ before' = table
    /\ op' = Ran("add_task", next_id, "", "")
    /\ CrudFrame

UpdateTask ==
    /\ \E t \in TaskIds, kwargs \in UpdateArgs :
          LET done == update_task(table, t, kwargs, now)
          IN  /\ table' = done.table
              /\ op' = Ran("update_task", t,
                           IF kwargs = <<>> THEN "" ELSE kwargs[1][1],
                           done.exc)
    /\ before' = table
    /\ UNCHANGED next_id
    /\ CrudFrame

MarkTaskComplete ==
    /\ \E t \in TaskIds :
          /\ table' = mark_task_complete(table, t, now)
          /\ op' = Ran("mark_task_complete", t, "", "")
    /\ before' = table
    /\ UNCHANGED next_id
    /\ CrudFrame

DeleteTask ==
    /\ \E t \in TaskIds :
          /\ table' = delete_task(table, t)
          /\ op' = Ran("delete_task", t, "", "")
    /\ before' = table
    /\ UNCHANGED next_id
    /\ CrudFrame

ClearAllTasks ==
    /\ table' = clear_all_tasks(table)
    /\ op' = Ran("clear_all_tasks", 0, "", "")
    /\ before' = table
    /\ UNCHANGED next_id
    /\ CrudFrame

NextCrud ==
    \/ AddTask
    \/ UpdateTask
    \/ MarkTaskComplete
    \/ DeleteTask
    \/ ClearAllTasks

SpecCrud == InitCrud /\ [][NextCrud]_vars

----------------------------------------------------------------------------
(* task_manager.py: view_tasks *)

\* the priority view_tasks puts in the table for a row: "Low" under an
\* invalid date, else by the days from today's date to the due date
DisplayedPriority(due_date, today_date) ==
    LET task_due_date == tm_safe_parse_date(due_date)
        days_left     == task_due_date.value - today_date
    IN  IF ~task_due_date.resolved THEN "Low"
        ELSE IF days_left < 0 \/ days_left <= 3 THEN "High"
        ELSE IF days_left <= 7 THEN "Medium"
        ELSE "Low"

\* the priority column of the table printed, today = datetime.now().date()
view_tasks(tbl, today) ==
    [i \in 1..Len(tbl) |->
        DisplayedPriority(tbl[i].due_date, today \div TicksPerDay)]

\* the tasks looked at both ways
ViewedTasks ==
    TaskDicts({ << "Buy milk", "", "" >>, << "Dentist APPOINTMENT", "", "" >> },
              DueTexts, {1, 10}, {{}}, {{}})

\* the row a task dict is stored as
RowOf(t, id, priority, today) ==
    StoredTask(id, t.title, t.description, t.category,
               [kind |-> "str", text |-> t.due_date], priority,
               t.reminder_days, "Pending", today)

InitView ==
    /\ task \in ViewedTasks
    /\ now = StartTicks
    /\ result = NoResult
    /\ evalAt = StartTicks
    /\ prevPriority = "none"
    /\ DateIdle
    /\ RecurIdle
    /\ ExtractIdle /\ SuggestIdle /\ FlowIdle
    /\ table = << RowOf(task, 1, "Medium", StartTicks) >>
    /\ next_id = 2
    /\ op = NoOp
    /\ before = <<>>
    /\ shown = NoShown

\* view_tasks(): the rows are read and the table is printed
ViewTasks ==
    /\ shown' = [status |-> "returned", at |-> now,
                 priorities |-> view_tasks(table, now)]
    /\ before' = table
    /\ op' = Ran("view_tasks", 0, "", "")
    /\ UNCHANGED <<table, next_id>>
    /\ UNCHANGED <<priorityVars, dateVars, recurVars>>
    /\ UNCHANGED <<extractVars, suggestVars, flowVars>>

NextView == Tick \/ Evaluate \/ ViewTasks

SpecView == InitView /\ [][NextView]_vars

----------------------------------------------------------------------------
(* Vocabulary of the properties *)

Rank(p) == CASE p = "Low" -> 1 [] p = "Medium" -> 2 [] p = "High" -> 3

\* the urgent-keyword set as the specification lists it
SpecUrgentKeywords ==
    << "doctor", "appointment", "exam", "surgery", "meeting", "interview",
       "deadline", "project", "rent", "bill", "payment" >>

Called == result.status # "none"

\* title, description and category hold texts (missing keys count as "")
TextsPresent == {"title", "description", "category"} \cap task.null = {}

\* reminder_days holds an integer (a missing key counts as 1)
ReminderKnown == "reminder_days" \notin task.null

\* no due date: key missing, None, or the empty text
NoDueDate == "due_date" \in (task.absent \cup task.null) \/ task.due_date = ""

DueResolves == ~NoDueDate /\ SafeParseDate(task.due_date).resolved

DueMalformed == ~NoDueDate /\ ~SafeParseDate(task.due_date).resolved

\* calendar day (ordinal) of the due date and of the call
DueDay == SafeParseDate(task.due_date).dt \div TicksPerDay

EvalDay == evalAt \div TicksPerDay

\* whole calendar days from the date of the call to the due date
CalendarDaysLeft == DueDay - EvalDay

\* today >= due_date - reminder_days, on calendar dates
ReminderDue == EvalDay >= DueDay - ReminderDaysOf(task)

\* the call was made at another time of day than midnight
DuringTheDay == evalAt % TicksPerDay # 0

\* some keyword of kws occurs in title, description or category, any case
HasKeywordOf(kws) ==
    LET title       == Lower(TextOf(task, "title"))
        description == Lower(TextOf(task, "description"))
        category    == Lower(TextOf(task, "category"))
    IN  \E i \in 1..Len(kws) :
            KeywordMatches(kws[i], title, description, category)

\* the reason has a keyword entry for a keyword of kws that the task contains
HasKeywordEntryOf(kws) ==
    LET title       == Lower(TextOf(task, "title"))
        description == Lower(TextOf(task, "description"))
        category    == Lower(TextOf(task, "category"))
    IN  \E i \in 1..Len(kws) :
            /\ KeywordMatches(kws[i], title, description, category)
            /\ Contains("contains urgent keyword: " \o kws[i], result.reason)

KeywordEntries == CountOcc("contains urgent keyword", result.reason)

----------------------------------------------------------------------------
(* Properties *)

\* C1: a task whose due date resolves and lies at most 2 calendar days ahead
\* (due today and overdue included) gets priority High, at any time of day,
\* for every reminder_days >= 0 and every keyword content.
C1_DueWithinTwoDaysIsHigh ==
    (Called /\ TextsPresent /\ ReminderKnown /\ DueResolves
        /\ CalendarDaysLeft <= 2)
    => (result.status = "ok" /\ result.priority = "High")

C1_Witness ==
    /\ result.status = "ok" /\ DueResolves /\ CalendarDaysLeft = 2
    /\ ~DuringTheDay /\ ~HasKeywordOf(SpecUrgentKeywords)
    /\ result.priority = "High"

\* C2 (as claimed): with 3 <= days_left <= 7 in calendar days, no urgent
\* keyword and today earlier than due_date - reminder_days, the priority is
\* Medium at any time of day, in particular at days_left = 3.
C2_MediumBucket ==
    (Called /\ TextsPresent /\ ReminderKnown /\ DueResolves
        /\ CalendarDaysLeft \in 3..7
        /\ ~HasKeywordOf(SpecUrgentKeywords) /\ ~ReminderDue)
    => (result.status = "ok" /\ result.priority = "Medium")

\* C3 (as claimed): with days_left > 7 in calendar days, no urgent keyword
\* and the reminder not triggered, the priority is Low at any time of day,
\* in particular at days_left = 8.
C3_LowBucket ==
    (Called /\ TextsPresent /\ ReminderKnown /\ DueResolves
        /\ CalendarDaysLeft > 7
        /\ ~HasKeywordOf(SpecUrgentKeywords) /\ ~ReminderDue)
    => (result.status = "ok" /\ result.priority = "Low")

\* C4: when today >= due_date - reminder_days the priority is High whatever
\* the date bucket; the reason has exactly one "reminder triggered" entry,
\* naming reminder_days, when the date rule had not already set High, and no
\* reminder entry when it had.
C4_ReminderEscalates ==
    (Called /\ TextsPresent /\ ReminderKnown /\ DueResolves /\ ReminderDue)
    => /\ result.status = "ok"
       /\ result.priority = "High"
       /\ IF DateBucket(DaysLeft(DueDay * TicksPerDay, evalAt)) # "High"
          THEN /\ CountOcc("reminder triggered", result.reason) = 1
               /\ Contains("reminder triggered ("
                             \o IntToStr(ReminderDaysOf(task)) \o "d",
                           result.reason)
          ELSE CountOcc("reminder triggered", result.reason) = 0

C4_Witness ==
    /\ result.status = "ok" /\ DueResolves /\ ReminderDue
    /\ CalendarDaysLeft > 7 /\ evalAt = ReminderDate(DueDay * TicksPerDay,
                                                     ReminderDaysOf(task))
    /\ ~HasKeywordOf(SpecUrgentKeywords)
    /\ result.priority = "High"
    /\ Contains("reminder triggered (10d", result.reason)

\* C5 (as claimed): a task containing, in any letter case, one of doctor,
\* appointment, exam, surgery, meeting, interview, deadline, project, rent,
\* bill, payment gets priority High whatever its date signal, and its reason
\* has a "contains urgent keyword: <kw>" entry for a keyword it contains.
C5_KeywordIsHigh ==
    (Called /\ TextsPresent /\ ReminderKnown
        /\ HasKeywordOf(SpecUrgentKeywords))
    => /\ result.status = "ok"
       /\ result.priority = "High"
       /\ HasKeywordEntryOf(SpecUrgentKeywords)

\* C6: the reason has exactly one "contains urgent keyword" entry when one
\* or several urgent keywords occur in the task, and none otherwise.
C6_OneKeywordEntry ==
    (Called /\ TextsPresent /\ ReminderKnown)
    => /\ result.status = "ok"
       /\ KeywordEntries = (IF HasKeywordOf(UrgentKeywords) THEN 1 ELSE 0)

C6_Witness ==
    /\ result.status = "ok"
    /\ Cardinality({i \in 1..Len(UrgentKeywords) :
                        HasKeywordOf(<< UrgentKeywords[i] >>)}) >= 3
    /\ KeywordEntries = 1
    /\ Contains("contains urgent keyword: doctor", result.reason)

\* C7 (as claimed): for a non-empty due_date text that is not a YYYY-MM-DD
\* date the call does not raise, the reason contains "invalid due date
\* format", no date or reminder entry is present, and the priority is High
\* if an urgent keyword matches and Low otherwise.
C7_InvalidDateFormatText ==
    (Called /\ TextsPresent /\ DueMalformed)
    => /\ result.status = "ok"
       /\ Contains("invalid due date format", result.reason)
       /\ ~Contains("due in", result.reason)
       /\ ~Contains("reminder triggered", result.reason)
       /\ result.priority =
            (IF HasKeywordOf(UrgentKeywords) THEN "High" ELSE "Low")

\* C7 (amended): for a non-empty due_date text that is not a YYYY-MM-DD date
\* the call does not raise, whatever reminder_days is, the reason contains
\* "invalid or missing due date", no date or reminder entry is present, and
\* the priority is High if a keyword of urgent_keywords matches and Low
\* otherwise.
C7_InvalidDateKeywordOnly ==
    (Called /\ TextsPresent /\ DueMalformed)
    => /\ result.status = "ok"
       /\ Contains("invalid or missing due date", result.reason)
       /\ ~Contains("due in", result.reason)
       /\ ~Contains("reminder triggered", result.reason)
       /\ result.priority =
            (IF HasKeywordOf(UrgentKeywords) THEN "High" ELSE "Low")

C7_Witness ==
    /\ result.status = "ok"
    /\ task.due_date = "13/25/2025"
    /\ "reminder_days" \in task.null
    /\ ~HasKeywordOf(UrgentKeywords)
    /\ result.priority = "Low"
    /\ result.reason = "invalid or missing due date"

\* C8: with no due date (key missing, None, or empty text) and no urgent
\* keyword the result is priority Low with reason exactly "no strong
\* signals", for every reminder_days.
C8_NoSignals ==
    (Called /\ TextsPresent /\ NoDueDate /\ ~HasKeywordOf(UrgentKeywords))
    => result = [status |-> "ok", priority |-> "Low",
                 reason |-> "no strong signals"]

C8_Witness ==
    /\ result.status = "ok"
    /\ "due_date" \notin (task.absent \cup task.null) /\ task.due_date = ""
    /\ task.reminder_days = 10
    /\ ~HasKeywordOf(SpecUrgentKeywords)
    /\ result.reason = "no strong signals"

\* C9: for a fixed task the priority never decreases in Low < Medium < High
\* from one call to a later call.
C9_PriorityMonotone ==
    (prevPriority # "none" /\ result.status = "ok")
    => Rank(prevPriority) <= Rank(result.priority)

C9_Witness ==
    /\ prevPriority = "Low"
    /\ result.status = "ok" /\ result.priority = "Medium"
    /\ evalAt > StartTicks

\* C10 (as claimed): whenever the due date resolves the reason has a "due in
\* N days" entry with N the calendar-day difference due_date - today (0 for
\* a task due today, at any time of day), a negative N being worded as
\* overdue.
C10_DueInCalendarDays ==
    (Called /\ TextsPresent /\ ReminderKnown /\ DueResolves)
    => /\ result.status = "ok"
       /\ \/ Contains("due in " \o IntToStr(CalendarDaysLeft) \o " days",
                      result.reason)
          \/ CalendarDaysLeft < 0 /\ Contains("overdue", Lower(result.reason))

\* first position of s at which sub occurs, 0 when it does not occur
FirstPos(sub, s) ==
    LET at == {i \in 1..(Len(s) - Len(sub) + 1) :
                  SubSeq(s, i, i + Len(sub) - 1) = sub}
    IN  IF at = {} THEN 0 ELSE CHOOSE i \in at : \A j \in at : i <= j

\* number of signal entries in the reason
SignalEntries ==
    CountOcc("due in ", result.reason)
        + CountOcc("invalid or missing due date", result.reason)
        + CountOcc("reminder triggered", result.reason)
        + CountOcc("contains urgent keyword", result.reason)

\* C11: the reason is never empty; it is the fallback "no strong signals"
\* exactly when no signal fired (no due date text and no keyword); otherwise
\* it lists the date entry (or the invalid-date note) first, then the
\* reminder entry, then the keyword entry, separated by ", ".
C11_ReasonInFiringOrder ==
    (Called /\ TextsPresent /\ ReminderKnown)
    => /\ result.status = "ok"
       /\ result.reason # ""
       /\ IF NoDueDate /\ ~HasKeywordOf(UrgentKeywords)
          THEN result.reason = "no strong signals"
          ELSE LET r   == result.reason
                   due == FirstPos("due in ", r)
                   inv == FirstPos("invalid or missing due date", r)
                   rem == FirstPos(", reminder triggered", r)
                   kw  == FirstPos("contains urgent keyword", r)
                   kwc == FirstPos(", contains urgent keyword", r)
               IN  /\ ~Contains("no strong signals", r)
                   /\ SignalEntries >= 1
                   /\ CountOcc(", ", r) = SignalEntries - 1
                   /\ DueResolves => due = 1
                   /\ DueMalformed => inv = 1
                   /\ NoDueDate => kw = 1
                   /\ Contains("reminder triggered", r) => rem > due
                   /\ (~NoDueDate /\ HasKeywordOf(UrgentKeywords))
                        => (kwc > due /\ kwc > inv /\ kwc > rem)

C11_Witness ==
    /\ result.status = "ok"
    /\ result.reason = "due in 10 days, reminder triggered (10d before), "
                        \o "contains urgent keyword: doctor"

\* the dict with description "", category "" and reminder_days 1 written
\* out where the key is missing or None
Defaulted(t) ==
    [t EXCEPT !.absent = @ \ {"description", "category", "reminder_days"},
              !.null   = @ \ {"description", "category", "reminder_days"}]

\* C13 (as claimed): with description, category or reminder_days missing or
\* None the call does not raise and returns what it returns for description
\* "", category "" and reminder_days 1.
C13_PartialFieldsDefaulted ==
    Called
    => /\ result.status = "ok"
       /\ result = get_effective_priority(Defaulted(task), evalAt)

----------------------------------------------------------------------------
(* Properties of safe_parse_date *)

\* the fields of s between the occurrences of the one-character sep
RECURSIVE SplitOn(_, _)
SplitOn(sep, s) ==
    LET k == FirstPos(sep, s)
    IN  IF k = 0 THEN << s >>
        ELSE << SubSeq(s, 1, k - 1) >> \o SplitOn(sep, SubSeq(s, k + 1, Len(s)))

\* a one- or two-digit number, or a space and a digit where pad allows it
ShortNumber(f, pad) ==
    \/ Len(f) \in 1..2 /\ AllDigits(f)
    \/ pad /\ Len(f) = 2 /\ CharAt(f, 1) = " " /\ IsDigit(CharAt(f, 2))

NumberOf(f) == IF CharAt(f, 1) = " " THEN StrToInt(SubSeq(f, 2, Len(f)))
               ELSE StrToInt(f)

\* year-month-day with a four-digit year naming a day of the calendar
IsDateText(s) ==
    LET f == SplitOn("-", s)
    IN  /\ Len(f) = 3
        /\ Len(f[1]) = 4 /\ AllDigits(f[1]) /\ StrToInt(f[1]) >= 1
        /\ ShortNumber(f[2], FALSE) /\ NumberOf(f[2]) \in 1..12
        /\ ShortNumber(f[3], TRUE)
        /\ NumberOf(f[3]) \in 1..DaysInMonth(StrToInt(f[1]), NumberOf(f[2]))

\* the same with month and day written with two digits: YYYY-MM-DD
IsPaddedDateText(s) ==
    /\ IsDateText(s)
    /\ Len(s) = 10 /\ AllDigits(SubSeq(s, 6, 7)) /\ AllDigits(SubSeq(s, 9, 10))

\* ordinal of the day a date text names
DayOfText(s) ==
    LET f == SplitOn("-", s)
    IN  ToOrdinal(StrToInt(f[1]), NumberOf(f[2]), NumberOf(f[3]))

ParseCalled == parsed.status # "none"

ParsedValueIsDay(s) ==
    parsed.value = (IF parsed.by = "ai_agent" THEN DayOfText(s) * TicksPerDay
                    ELSE DayOfText(s))

\* C14 (as claimed): safe_parse_date never raises; it returns None for None,
\* for the empty string and for every text not in YYYY-MM-DD form, and the
\* calendar date for every well-formed YYYY-MM-DD text.
C14_OnlyPaddedDatesResolve ==
    ParseCalled
    => /\ parsed.status = "returned"
       /\ parsed.resolved
            <=> (dateArg.kind = "str" /\ IsPaddedDateText(dateArg.text))
       /\ parsed.resolved => ParsedValueIsDay(dateArg.text)

\* C14 (amended): safe_parse_date never raises; it returns None for None,
\* for a non-text value, for the empty string and for every text that is not
\* year-month-day with "-" separators, a four-digit year and a one- or
\* two-digit month and day naming a real day; it returns the calendar date
\* for every other text, so for every well-formed YYYY-MM-DD text and also
\* for unpadded ones such as 2025-2-9.
C14_DateTextsResolve ==
    ParseCalled
    => /\ parsed.status = "returned"
       /\ parsed.resolved
            <=> (dateArg.kind = "str" /\ IsDateText(dateArg.text))
       /\ parsed.resolved => ParsedValueIsDay(dateArg.text)

C14_Witness ==
    /\ parsed.status = "returned" /\ parsed.resolved
    /\ parsed.by = "task_manager"
    /\ dateArg.text = "2025-2-9"
    /\ parsed.value = ToOrdinal(2025, 2, 9)

----------------------------------------------------------------------------
(* Properties of predict_auto_renew *)

\* the call has come to its end, by a return or by an exception
CallOver == call.pc \in {"returned", "raised"}

\* every request of the call failed
EveryRequestFailed == call.requests > 0 /\ call.failures = call.requests

\* C15: when the classifier fails (timeout, error, unavailable model or
\* malformed reply) on every request made for a task, predict_auto_renew
\* returns "No" and never raises to its caller.
C15_FailuresGiveNo ==
    (CallOver /\ EveryRequestFailed)
    => (call.pc = "returned" /\ call.out = "No")

\* C16: a call of predict_auto_renew issues at most one request to the
\* classifier; after a failed request no second one is made.
C16_AtMostOneRequest == call.requests <= 1

\* s holds the letters of "yes" in a row, each in either case
HoldsYes(s) ==
    \E k \in 1..(Len(s) - 2) :
        /\ CharAt(s, k) \in {"y", "Y"}
        /\ CharAt(s, k + 1) \in {"e", "E"}
        /\ CharAt(s, k + 2) \in {"s", "S"}

\* C17: when the classifier replies, predict_auto_renew answers "Yes" if
\* and only if the reply text contains "yes" in any letter case, and "No"
\* for every other reply.
C17_YesIffReplyHoldsYes ==
    (call.pc = "returned" /\ call.response.kind = "reply")
    => /\ call.out \in {"Yes", "No"}
       /\ call.out = "Yes" <=> HoldsYes(call.response.text)

C17_Witness ==
    /\ call.pc = "returned"
    /\ call.response = [kind |-> "reply", text |-> " YES.\n"]
    /\ call.out = "Yes"

----------------------------------------------------------------------------
(* Properties of get_recurring_suggestions *)

\* the rows the loop is done with
Processed == 1..(gen.i - 1)

\* the due date of row j is a text naming a day
Resolvable(j) ==
    rows[j].due_date.kind = "str" /\ IsDateText(rows[j].due_date.text)

\* a suggestion was appended for row j
Emitted(j) == \E k \in DOMAIN sources : sources[k] = j

\* predict_auto_renew was called for row j
OracleConsulted(j) ==
    \/ call.pc # "idle" /\ call.row = j
    \/ \E k \in DOMAIN asked : asked[k].row = j

\* the day a week after the day of the text s, written YYYY-MM-DD
WeekLater(s) == Strftime(Ord2Ymd(DayOfText(s) + 7), TRUE)

\* rows without a date are passed over silently
UndatedRowsSkipped ==
    /\ \A j \in DOMAIN rows :
          ~Resolvable(j) => ~Emitted(j) /\ ~OracleConsulted(j)
    /\ gen.pc = "raised" => Resolvable(gen.i)

\* each suggestion is due a week after its row
DueAWeekLater ==
    \A k \in DOMAIN suggestions :
        suggestions[k].due_date = WeekLater(rows[sources[k]].due_date.text)

\* C18: get_recurring_suggestions never emits a suggestion for a task whose
\* due date is absent, empty or malformed (such tasks are skipped without
\* error and without consulting the oracle), and the due_date of every
\* emitted suggestion is the due date of its source task plus 7 days,
\* formatted YYYY-MM-DD, also across month and year boundaries.
C18_SkippedOrAWeekLater == UndatedRowsSkipped /\ DueAWeekLater

\* the oracle answered "Yes" for row j
AnsweredRecurring(j) ==
    \E k \in DOMAIN asked : asked[k].row = j /\ asked[k].out = "Yes"

\* the rows whose handling is over: the loop went past them, or the
\* function ended at them
Handled == Processed \cup (IF gen.pc = "raised" THEN {gen.i} ELSE {})

\* suggestion k has the fields of its row
FieldsCarried(k) ==
    LET s == suggestions[k]
        r == rows[sources[k]]
    IN  /\ s.title = r.title
        /\ s.description = r.description
        /\ s.category = r.category
        /\ s.priority = r.priority
        /\ s.reminder_days = r.reminder_days

\* C19: every suggestion emitted by get_recurring_suggestions carries the
\* title, description, category, stored priority and reminder_days of its
\* source task unchanged; for a task with a resolvable due date a
\* suggestion is emitted if and only if the oracle answered recurring for
\* that task.
C19_CarriedAndEmittedIffRecurring ==
    /\ \A k \in DOMAIN suggestions : FieldsCarried(k)
    /\ \A j \in Handled :
          Resolvable(j) => (Emitted(j) <=> AnsweredRecurring(j))

\* row j has a date and the oracle's "Yes"
Qualifies(j) == Resolvable(j) /\ AnsweredRecurring(j)

\* C20: the suggestions of get_recurring_suggestions stand in the order of
\* their source tasks, and none is dropped as a duplicate: two tasks that
\* both qualify give two suggestions, also when their fields are the same.
C20_StableNoDedup ==
    /\ Len(sources) = Len(suggestions)
    /\ \A k \in DOMAIN suggestions : FieldsCarried(k)
    /\ \A k \in 1..(Len(sources) - 1) : sources[k] < sources[k + 1]
    /\ \A j \in Processed : Qualifies(j) => Emitted(j)

C20_Witness ==
    /\ gen.pc = "returned"
    /\ Len(rows) = 2 /\ rows[1] = rows[2]
    /\ Len(suggestions) = 2 /\ suggestions[1] = suggestions[2]
    /\ sources = <<1, 2>>

\* the classifier failed in the call for row j: its first request raised
\* or came back without a text, and no "Yes" was read
ClassifierFailedAt(k) ==
    asked[k].first \in {"error", "malformed"} /\ asked[k].out # "Yes"

\* C21: during get_recurring_suggestions a failure of the classifier on one
\* task does not leave the generator: the task is treated as not recurring
\* and the generator goes on to the remaining tasks.
C21_ClassifierFailureContained ==
    \A k \in DOMAIN asked :
        ClassifierFailedAt(k)
        => /\ asked[k].out = "No"
           /\ ~Emitted(asked[k].row)
           /\ gen.exc # "APIError"

\* C22: the core only reads task records: predict_auto_renew and
\* get_recurring_suggestions leave the rows of the tasks table as they are
\* (none inserted, updated or deleted, every stored priority the same), and
\* get_effective_priority leaves the task it is given as it is.
C22_CoreOnlyReads == [][rows' = rows /\ task' = task]_vars

C22_Witness ==
    /\ gen.pc = "returned"
    /\ Len(rows) = 1 /\ Len(suggestions) = 1
    /\ rows[1].priority = suggestions[1].priority

----------------------------------------------------------------------------
(* Properties of extract_priority *)

\* what stands on the first line once "Priority:" is taken out and the
\* blanks around it are dropped
NamedOnFirstLine(s) == Strip(Remove("Priority:", FirstLine(s)))

\* C23: extract_priority is total and always returns one of High, Medium,
\* Low: the level named on the first line of the response after removing
\* "Priority:" when that is exactly High, Medium or Low, and Medium for
\* every other input, a value that is no text and a first line with more
\* on it (a leading "- ", trailing words) included.
C23_ExtractIsTotal ==
    level.status # "none"
    => /\ level.status = "returned"
       /\ level.value \in {"High", "Medium", "Low"}
       /\ IF /\ ai_response.kind = "str"
             /\ NamedOnFirstLine(ai_response.text) \in {"High", "Low"}
          THEN level.value = NamedOnFirstLine(ai_response.text)
          ELSE level.value = "Medium"

C23_Witness ==
    /\ level.status = "returned"
    /\ ai_response = [kind |-> "str", text |-> "- Priority: High (urgent)"]
    /\ level.value = "Medium"

----------------------------------------------------------------------------
(* Properties of suggest_priority *)

\* the keywords the rules of suggest_priority name
RuleKeywords == {"doctor", "exam", "surgery", "rent", "bill", "deadline",
                 "project", "meeting"}

AskHasKeyword ==
    \E k \in RuleKeywords :
        Contains(k, Lower(ask.title)) \/ Contains(k, Lower(ask.description))

AskDueResolves ==
    ask.due_date.kind = "str" /\ IsDateText(ask.due_date.text)

AskHasNoDue == ask.due_date.kind = "None" \/ ask.due_date.text = ""

\* days from the day of the call to the due day, and the same less the
\* part of the day gone by
AskCalendarDays == DayOfText(ask.due_date.text) - (advice.at \div TicksPerDay)

AskElapsedDays ==
    (DayOfText(ask.due_date.text) * TicksPerDay - advice.at) \div TicksPerDay

\* the level a count of days stands for
LevelOfDays(n) ==
    IF n <= 2 THEN "High" ELSE IF n <= 7 THEN "Medium" ELSE "Low"

AdviceLevel == Strip(Remove("Priority:", FirstLine(advice.text)))

\* C24: suggest_priority never raises when the AI call fails, and its local
\* fallback follows the stated rules: High whenever title or description
\* holds one of the urgent keywords, whatever the due date is, and
\* otherwise High within 2 days, Medium within 7 days, Low beyond.
C24_FallbackFollowsRules ==
    (advice.status # "none" /\ advice.failed)
    => /\ advice.status = "returned"
       /\ AskHasKeyword => AdviceLevel = "High"
       /\ (~AskHasKeyword /\ AskDueResolves)
            => AdviceLevel \in { LevelOfDays(AskCalendarDays),
                                 LevelOfDays(AskElapsedDays) }
       /\ (~AskHasKeyword /\ AskHasNoDue) => AdviceLevel = "Low"

----------------------------------------------------------------------------
(* Properties of the Add Task branch *)

Blanks == {" ", "\t"}

\* s with the blanks at its ends dropped is t
Trimmed(s, t) ==
    \E i \in 1..(Len(s) + 1), j \in 0..Len(s) :
        /\ t = SubSeq(s, i, j)
        /\ \A k \in (1..(i - 1)) \cup ((j + 1)..Len(s)) : CharAt(s, k) \in Blanks
        /\ t = "" \/ (CharAt(t, 1) \notin Blanks /\ CharAt(t, Len(t)) \notin Blanks)

TrimOf(s) ==
    CHOOSE t \in { SubSeq(s, i, j) : i \in 1..(Len(s) + 1), j \in 0..Len(s) } :
        Trimmed(s, t)

\* the Add Task branch has been gone through
BranchRan == cli.choice = "1"

TitleGiven == TrimOf(cli.title) # ""

DueLeftEmptyOrDate ==
    TrimOf(cli.due_date) = "" \/ IsDateText(TrimOf(cli.due_date))

\* nothing typed (the default) or a whole number, with or without sign
ReminderIsInteger ==
    LET t == TrimOf(cli.reminder_days)
        d == IF t # "" /\ CharAt(t, 1) \in {"+", "-"}
             THEN SubSeq(t, 2, Len(t)) ELSE t
    IN  t = "" \/ (d # "" /\ AllDigits(d))

\* the branch has stored one task behind the rows there were
OneTaskStored ==
    /\ Len(table) = Len(before) + 1
    /\ SubSeq(table, 1, Len(before)) = before

\* C25: in the Add Task branch a task is stored only when the title is not
\* empty, the due date is left empty or parses as a date, and the reminder
\* days parse as an integer, and then with a stored priority among Low,
\* Medium, High; on an empty title, a malformed date or a reminder that is
\* no number the table stays as it was, and the loop is back at the menu.
C25_StoredOnlyWhenValid ==
    BranchRan
    => /\ cli.pc = "menu"
       /\ table = before \/ OneTaskStored
       /\ table # before
            => /\ TitleGiven /\ DueLeftEmptyOrDate /\ ReminderIsInteger
               /\ table[Len(table)].priority \in {"Low", "Medium", "High"}
       /\ (~TitleGiven \/ ~DueLeftEmptyOrDate \/ ~ReminderIsInteger)
            => table = before

C25_Witness ==
    /\ Len(table) = 1
    /\ table[1].due_date.text = "2025-02-09" /\ table[1].priority = "Low"
    /\ cli.message = NotANumber /\ cli.reminder_days = "abc"
    /\ table = before

----------------------------------------------------------------------------
(* Properties of the operations on the tasks table *)

\* the rows of tbl other than the one with id t, in their order
Others(tbl, t) == SelectSeq(tbl, LAMBDA row : row.task_id # t)

\* row differs from old at most in the fields named
SameBut(row, old, fields) ==
    \A f \in DOMAIN old : f \notin fields => row[f] = old[f]

\* the statement touched no row but the one with id t, and removed none
OnlyTaskTouched(t) ==
    /\ Len(table) = Len(before)
    /\ \A i \in DOMAIN before :
          before[i].task_id # t => table[i] = before[i]

\* C26: operations addressed by task_id affect only that task: after any
\* sequence of add_task, update_task, mark_task_complete, delete_task and
\* clear_all_tasks, delete_task(t) has removed exactly the task with id t,
\* mark_task_complete(t) has changed only status (to Completed) and
\* updated_at of task t, every other task is unchanged, update_task with no
\* fields changes nothing, and clear_all_tasks leaves the table empty.
C26_OnlyAddressedTaskAffected ==
    /\ op.name = "delete_task" => table = Others(before, op.task_id)
    /\ op.name = "mark_task_complete"
         => /\ OnlyTaskTouched(op.task_id)
            /\ \A i \in DOMAIN before :
                  before[i].task_id = op.task_id
                  => /\ table[i].status = "Completed"
                     /\ SameBut(table[i], before[i], {"status", "updated_at"})
    /\ op.name = "update_task"
         => /\ OnlyTaskTouched(op.task_id)
            /\ op.field = "" => table = before
    /\ op.name = "clear_all_tasks" => table = <<>>
    /\ op.name = "add_task"
         => /\ SubSeq(table, 1, Len(before)) = before
            /\ \A i \in DOMAIN before : before[i].task_id # op.task_id

----------------------------------------------------------------------------
(* Properties of view_tasks *)

\* the table was printed and the task evaluated at the same instant
SeenBothWays ==
    /\ Called /\ result.status = "ok"
    /\ shown.status = "returned" /\ shown.at = evalAt

\* the reason of get_effective_priority opens with "due in n days"
ReasonOpensWith(n) ==
    LET opening == "due in " \o IntToStr(n) \o " days"
    IN  /\ Len(opening) <= Len(result.reason)
        /\ SubSeq(result.reason, 1, Len(opening)) = opening

DaysInReach == (0 - 40)..40

\* C27: for every task with a resolvable due date and at every instant,
\* the priority view_tasks displays is the date-bucket priority
\* get_effective_priority computes for the task (High up to 2 days left,
\* Medium for 3 to 7, Low beyond 7); view_tasks does not write the value
\* displayed back to the stored priority.
C27_ViewAgreesWithDateBucket ==
    (SeenBothWays /\ DueResolves)
    => /\ \E n \in DaysInReach :
             ReasonOpensWith(n) /\ shown.priorities[1] = LevelOfDays(n)
       /\ table = before

----------------------------------------------------------------------------
(* Properties of the reminder step *)

\* the reminder of the task: a stored value from 0 to 2, or the default 1
SmallReminder == ReminderKnown /\ ReminderDaysOf(task) \in 0..2

\* the result get_effective_priority gives without its reminder step: the
\* date entry and the bucket of its count of days, and High with a keyword
\* entry after the date entry when the task holds an urgent keyword
WithoutReminderStep(n) ==
    LET dated == "due in " \o IntToStr(n) \o " days"
    IN  \/ /\ result.reason = dated
           /\ result.priority = LevelOfDays(n)
           /\ ~HasKeywordOf(UrgentKeywords)
        \/ /\ result.priority = "High"
           /\ \E i \in 1..Len(UrgentKeywords) :
                 /\ result.reason = dated \o ", contains urgent keyword: "
                                          \o UrgentKeywords[i]
                 /\ HasKeywordOf(<< UrgentKeywords[i] >>)

\* C28: for a task with a resolvable due date and reminder_days from 0 to 2
\* (the default 1 included), the reminder step of get_effective_priority
\* never changes the result: priority and reason are the ones the date
\* bucket and the keyword rule give, with no reminder entry in the reason,
\* also at the instants where the reminder date has been reached.
C28_SmallReminderChangesNothing ==
    (Called /\ result.status = "ok" /\ DueResolves /\ SmallReminder)
    => /\ ~Contains("reminder triggered", result.reason)
       /\ \E n \in DaysInReach :
             ReasonOpensWith(n) /\ WithoutReminderStep(n)

\* the reminder date of a task with reminder_days = 2 has been reached,
\* and the result is the date bucket's alone
C28_Witness ==
    /\ Called /\ result.status = "ok" /\ DueResolves /\ ReminderKnown
    /\ "reminder_days" \notin task.absent /\ task.reminder_days = 2
    /\ ReminderDue /\ CalendarDaysLeft = 2
    /\ result.priority = "High"
    /\ result.reason = "due in 2 days"

====
